---- MODULE Spec2Model ----
(***************************************************************************)
(* The bookmark import pipeline of research-assistant-proxy:               *)
(*   - the import-batch routes of bookmarks/bookmarks-routes.js            *)
(*     (create, import, complete, progress, retry-failed, delete),         *)
(*   - the background orchestrator BookmarkContentFetcher of               *)
(*     bookmarks/content-fetcher.js (processPendingBookmarks and the       *)
(*     per-item pipeline fetchBookmarkContent / processPDFBookmark).       *)
(* The remote datastore is the three tables import_batches,                *)
(* imported_bookmarks and user_content; every datastore call is one atomic *)
(* step, and a handler is split exactly at the awaits between two          *)
(* datastore calls of the orchestrator.                                    *)
(***************************************************************************)
EXTENDS Integers, Sequences, FiniteSets, TLC

\* ---------------------------------------------------------------- bounds
MaxItems == 2      \* rows ever inserted into imported_bookmarks (Spec)
MaxBatches == 2    \* rows ever inserted into import_batches (Spec)
MaxTotal == 2      \* largest totalBookmarks a client declares (Spec)
MaxTimers == 1     \* kick-off timers pending at the same time
MaxRuns == 2       \* slots for concurrently active orchestrator runs
BigItems == 6      \* size of the one batch of SpecBig (more than one slice)
MaxRules == 4      \* rule sets in the list of the rule engine
MaxParagraphs == 3 \* paragraphs of a text given to the content scorer
MaxCalls == 3      \* calls of cleanContent in flight together
MaxText == 6       \* characters of a text given to the final pass
MaxSlices == 3     \* slices listed in a behaviour that keeps the loop's history

\* ------------------------------------------------------ program constants
batchSize == 5     \* this.batchSize

Users == {"u1", "u2"}
BatchIds == 1..MaxBatches
ItemIds == 1..(IF MaxItems > BigItems THEN MaxItems ELSE BigItems)

VARIABLES
  processing,      \* BookmarkContentFetcher.processing, the busy flag
  import_batches,  \* table import_batches: batch id -> row or NoRow
  imported_bookmarks, \* table imported_bookmarks: item id -> row, NoRow, Deleted
  user_content,    \* table user_content: per source item, the rows inserted
  runs,            \* the activations of processPendingBookmarks
  timers,          \* pending setTimeout kick-offs: <<userId, batchId>> -> count
  returned,        \* what the call of processPendingBookmarks that returned
                   \* last was called for and what it returned
  detector,        \* the call of ContentTypeDetector.detectType in progress
  cleaner,         \* the rule list of the PreProcessor and its run in progress
  scorer,          \* the weights of the ContentScorer and its last result
  report,          \* the text ContentScorer.scoreContent was last called
                   \* with, and the breakdown and recommendations returned
  metrics,         \* CleaningMetrics.metrics of the singleton instance
  calls,           \* the calls of ContentCleaner.cleanContent in flight
  post,            \* the text PostProcessor._finalCleanup was last called
                   \* with, and the text it returned
  loop             \* history of the processing loop: the slices listed so
                   \* far, and how often each row was listed in one

\* the state of the import pipeline, and the state of the components that
\* are called with no reference to it
fetcherVars == <<processing, import_batches, imported_bookmarks, user_content,
                 runs, timers, returned>>
libVars == <<detector, cleaner, scorer, report, metrics, calls, post, loop>>
detectorFrame == <<fetcherVars, cleaner, scorer, report, metrics, calls, post, loop>>
cleanerFrame == <<fetcherVars, detector, scorer, report, metrics, calls, post, loop>>
scorerFrame == <<fetcherVars, detector, cleaner, report, metrics, calls, post, loop>>
reportFrame == <<fetcherVars, detector, cleaner, scorer, metrics, calls, post, loop>>
metricsFrame == <<fetcherVars, detector, cleaner, scorer, report, post, loop>>
postFrame == <<fetcherVars, detector, cleaner, scorer, report, metrics, calls, loop>>

vars == <<processing, import_batches, imported_bookmarks, user_content, runs,
          timers, returned, detector, cleaner, scorer, report, metrics, calls,
          post, loop>>

NoRow == [absent |-> TRUE]
Deleted == [deleted |-> TRUE]

IsRow(x) == x # NoRow /\ x # Deleted

\* ------------------------------------------------------------ the tables
Batch(b) == import_batches[b]
Item(i) == imported_bookmarks[i]

BatchExists(b) == b \in BatchIds /\ IsRow(Batch(b))
ItemExists(i) == IsRow(Item(i))

\* the rows of imported_bookmarks with import_batch_id = b
BatchItems(b) == {i \in ItemIds : ItemExists(i) /\ Item(i).import_batch_id = b}

\* ... and fetch_status = s
BatchItemsIn(b, s) == {i \in BatchItems(b) : Item(i).fetch_status = s}

InsertedItems == {i \in ItemIds : Item(i) # NoRow}
InsertedBatches == {b \in BatchIds : Batch(b) # NoRow}

\* ids are handed out in insertion order
NextItemId == Cardinality(InsertedItems) + 1
NextBatchId == Cardinality(InsertedBatches) + 1

TimerCount == LET RECURSIVE Sum(_)
                  Sum(S) == IF S = {} THEN 0
                            ELSE LET k == CHOOSE k \in S : TRUE
                                 IN timers[k] + Sum(S \ {k})
              IN Sum(Users \X BatchIds)

\* ---------------------------------------------------- the item pipeline
ContentTypes == {"article", "product", "social", "video", "other"}

\* What the collaborators of one fetchBookmarkContent call answer.
AllInputs == [isPDF : BOOLEAN,        \* PDFExtractor.isPDFURL(url)
              pdfOk : BOOLEAN,        \* pdfExtractor.extractFromURL(...).success
              httpOk : BOOLEAN,       \* fetch resolved and response.ok
              contentType : ContentTypes, \* typeDetector.detectType(url, html)
              cleanOk : BOOLEAN,      \* contentCleaner.cleanContent(...).success
              article : BOOLEAN,      \* Readability.parse() returned content
              postOk : BOOLEAN,       \* postProcessContent(...).success
              insertOk : BOOLEAN]     \* the user_content insert returned no error

RawHtml == <<"html">>
Cleaned(h) == <<"cleaned">> \o h        \* PreProcessor output for h
Extracted(h) == <<"readability">> \o h  \* article.content parsed out of h
Normalized(c) == <<"text">> \o c        \* PostProcessor output for c
PdfText == <<"pdftext">>

Failure(msg, seen) ==
  [success |-> FALSE, error |-> msg, content_type |-> "none",
   content_text |-> <<>>, consulted |-> seen]

Success(type, text, seen) ==
  [success |-> TRUE, error |-> "null", content_type |-> type,
   content_text |-> text, consulted |-> seen]

\* processPDFBookmark: extract, insert, or fail with the prefixed message
processPDFBookmark(inp) ==
  IF ~inp.pdfOk THEN Failure("PDF extraction failed: extraction", {"pdf"})
  ELSE IF ~inp.insertOk THEN Failure("PDF extraction failed: insert", {"pdf"})
  ELSE Success("pdf", PdfText, {"pdf"})

\* an article branch that stores the page as it was fetched when the
\* extraction returns nothing
articlePathFallback(inp) ==
  LET seen0 == {"http", "classifier", "ruleEngine", "extraction"}
      cleanedHtml == IF inp.cleanOk THEN Cleaned(RawHtml) ELSE RawHtml
      content == IF inp.article THEN Extracted(cleanedHtml) ELSE RawHtml
      finalContent == IF inp.postOk THEN Normalized(content) ELSE content
  IN IF ~inp.insertOk
       THEN Failure("insert", seen0 \cup {"postProcessor"})
       ELSE Success("article", finalContent, seen0 \cup {"postProcessor"})

\* an article branch in which a failed cleaning or a failed post-processing
\* is an exception of the pipeline
articlePathStrict(inp) ==
  LET seen0 == {"http", "classifier", "ruleEngine", "extraction"}
  IN IF ~inp.cleanOk THEN Failure("cleaning", {"http", "classifier", "ruleEngine"})
     ELSE IF ~inp.article
       THEN Failure("Could not extract content from page", seen0)
     ELSE IF ~inp.postOk THEN Failure("postprocessing", seen0 \cup {"postProcessor"})
     ELSE IF ~inp.insertOk
       THEN Failure("insert", seen0 \cup {"postProcessor"})
       ELSE Success("article", Normalized(Extracted(Cleaned(RawHtml))),
                    seen0 \cup {"postProcessor"})

\* the article branch of fetchBookmarkContent (lines 145-178)
articlePath(inp) ==
  LET seen0 == {"http", "classifier", "ruleEngine", "extraction"}
      cleanedHtml == IF inp.cleanOk THEN Cleaned(RawHtml) ELSE RawHtml
      finalContent == IF inp.postOk THEN Normalized(Extracted(cleanedHtml))
                                    ELSE Extracted(cleanedHtml)
  IN IF ~inp.article
       THEN Failure("Could not extract content from page", seen0)
       ELSE IF ~inp.insertOk
         THEN Failure("insert", seen0 \cup {"postProcessor"})
         ELSE Success("article", finalContent, seen0 \cup {"postProcessor"})

\* the non-article branch (lines 180-198): the original HTML is stored
metadataPath(inp) ==
  IF ~inp.insertOk THEN Failure("insert", {"http", "classifier"})
  ELSE Success(inp.contentType, RawHtml, {"http", "classifier"})

\* a pipeline without the PDF check: every url is fetched and classified
fetchBookmarkContentNoPdfCheck(inp) ==
  IF ~inp.httpOk THEN Failure("HTTP", {"http"})
  ELSE IF inp.contentType = "article" THEN articlePath(inp)
  ELSE metadataPath(inp)

\* fetchBookmarkContent after the item was marked fetching: what it persists
\* and which collaborators it consulted, as a function of their answers
fetchBookmarkContent(inp) ==
  IF inp.isPDF THEN processPDFBookmark(inp)
  ELSE IF ~inp.httpOk THEN Failure("HTTP", {"http"})
  ELSE IF inp.contentType = "article" THEN articlePath(inp)
  ELSE metadataPath(inp)

\* ------------------------------------------------------------- the runs
RunIds == 1..MaxRuns
IdleRun == [pc |-> "idle"]

ActiveRuns == {r \in RunIds : runs[r].pc # "idle"}

NewPipe == [pc |-> "mark", success |-> FALSE, content_id |-> 0]

\* the value a call of processPendingBookmarks(userId, batchId) returns
NoReturn == [batchId |-> 0, success |-> FALSE, message |-> "none"]
Return(b, ok, msg) == [batchId |-> b, success |-> ok, message |-> msg]

\* ------------------------------------------- the content type detector
\* A url is taken as the set of pattern families of detectFromURL that one
\* of its substrings matches.
UrlFamilies == {"social", "video", "product", "article"}
Urls == SUBSET UrlFamilies

\* the html argument of detectType: a string, or no argument at all
HtmlArgs == {"string", "absent"}

\* what the remote classification answers to one request: the request
\* throws, the status is not a success, the body is not JSON, the body has
\* no content[0].text, or the body carries a token
Tokens == ContentTypes \cup {"unrelated"}
RemoteAnswers == {"networkError", "notOk", "badJson", "noContent"} \cup Tokens

\* detectFromURL: the families are tested in the order social, video,
\* e-commerce, publishing, and the first match is returned
detectFromURL(url) ==
  IF "social" \in url THEN "social"
  ELSE IF "video" \in url THEN "video"
  ELSE IF "product" \in url THEN "product"
  ELSE IF "article" \in url THEN "article"
  ELSE "unknown"

DetIdle == [pc |-> "idle", url |-> {}, html |-> "string", apiKey |-> FALSE,
            remoteCalls |-> 0, cause |-> "none", result |-> "none",
            defaults |-> {}]

\* the catch block of detectType
DetCaught(cause) ==
  [detector EXCEPT !.pc = "done", !.result = "article", !.cause = cause,
                   !.defaults = IF cause \in {"networkError", "badJson", "noContent"}
                                  THEN @ \cup {"article"} ELSE @]

\* a return of the default label after the remote classification was of no use
DetDefault(cause) ==
  [detector EXCEPT !.pc = "done", !.result = "other", !.cause = cause,
                   !.defaults = @ \cup {"other"}]

\* detectType(url, html) is called on a detector built with or without
\* ANTHROPIC_API_KEY
DetectTypeCall(url, html, key) ==
  /\ detector.pc \in {"idle", "done"}
  /\ detector' = [detector EXCEPT !.pc = "snippet", !.url = url, !.html = html,
                                  !.apiKey = key, !.remoteCalls = 0,
                                  !.cause = "none", !.result = "none"]
  /\ UNCHANGED detectorFrame

\* line 23, extractSnippet: html.substring throws when html is absent
ExtractSnippet ==
  /\ detector.pc = "snippet"
  /\ detector' = IF detector.html = "absent" THEN DetCaught("noHtml")
                 ELSE [detector EXCEPT !.pc = "url"]
  /\ UNCHANGED detectorFrame

\* lines 26-30: a url that matches a family is answered at once
UrlDetection ==
  /\ detector.pc = "url"
  /\ detector' = IF detectFromURL(detector.url) # "unknown"
                   THEN [detector EXCEPT !.pc = "done",
                                         !.result = detectFromURL(detector.url)]
                   ELSE [detector EXCEPT !.pc = "key"]
  /\ UNCHANGED detectorFrame

\* lines 33-36: without an API key the answer is 'other'
KeyCheck ==
  /\ detector.pc = "key"
  /\ detector' = IF detector.apiKey THEN [detector EXCEPT !.pc = "fetch"]
                 ELSE DetDefault("noKey")
  /\ UNCHANGED detectorFrame

\* lines 38-57: the request to the remote classification is sent
RemoteRequest ==
  /\ detector.pc = "fetch"
  /\ detector' = [detector EXCEPT !.pc = "response", !.remoteCalls = @ + 1]
  /\ UNCHANGED detectorFrame

\* lines 57-81: the request is answered (or throws) and the answer is read
RemoteResponse(answer) ==
  /\ detector.pc = "response"
  /\ detector' =
       IF answer = "networkError" THEN DetCaught("networkError")
       ELSE IF answer = "notOk" THEN DetDefault("notOk")
       ELSE IF answer \in {"badJson", "noContent"} THEN DetCaught(answer)
       ELSE IF answer \in ContentTypes
         THEN [detector EXCEPT !.pc = "done", !.result = answer]
       ELSE DetDefault("invalidToken")
  /\ UNCHANGED detectorFrame

Detector ==
  \/ \E url \in Urls, html \in HtmlArgs, key \in BOOLEAN : DetectTypeCall(url, html, key)
  \/ ExtractSnippet
  \/ UrlDetection
  \/ KeyCheck
  \/ RemoteRequest
  \/ \E answer \in RemoteAnswers : RemoteResponse(answer)

\* ------------------------------------- the rule engine (PreProcessor)
\* A rule set, as far as the engine looks at it: its name and priority,
\* what its shouldApply tests, whether applying it throws, whether it has
\* text patterns, and whether its cleaning selectors prune blank elements.
BaseRules ==
  [name |-> "base-rules", priority |-> 1, predicate |-> "always",
   apply |-> "ok", patterns |-> TRUE, prune |-> TRUE]
EcommerceRules ==
  [name |-> "ecommerce-rules", priority |-> 2, predicate |-> "shop",
   apply |-> "ok", patterns |-> TRUE, prune |-> FALSE]
SiteSpecificRules ==
  [name |-> "site-specific-rules", priority |-> 3, predicate |-> "site",
   apply |-> "ok", patterns |-> TRUE, prune |-> FALSE]

\* the rule objects a caller may hand to addRule
CustomRules ==
  [name : {"custom"}, priority : {0, 4}, predicate : {"always", "throws"},
   apply : {"ok", "throws"}, patterns : {FALSE}, prune : {FALSE}]

RuleNames == {"base-rules", "ecommerce-rules", "site-specific-rules", "custom"}

\* a url: whether new URL(url) parses it, whether it shows one of the
\* e-commerce patterns, whether its hostname has site-specific rules
CleanUrls == [valid : BOOLEAN, shop : BOOLEAN, site : BOOLEAN]

\* rule.shouldApply(url): EcommerceRules parses the url without a guard,
\* SiteSpecificRules takes the hostname '' for a url that does not parse
shouldApply(rule, url) ==
  CASE rule.predicate = "always" -> "yes"
    [] rule.predicate = "shop" ->
         IF ~url.valid THEN "throws" ELSE IF url.shop THEN "yes" ELSE "no"
    [] rule.predicate = "site" -> IF url.valid /\ url.site THEN "yes" ELSE "no"
    [] OTHER -> "throws"

\* The document: two nested div elements, 2 inside 1. Of each: the rule set
\* one of whose removal selectors matches it, whether it matches one of the
\* main-content landmarks, and its own text (blank, a text that the text
\* patterns match, a short text, a text of substance).
Elems == {1, 2}
Desc(e) == IF e = 1 THEN {1, 2} ELSE {2}
Contents == {"blank", "pattern", "short", "substantial"}
ElemAttrs == [sel : RuleNames \cup {"none"}, landmark : BOOLEAN, content : Contents]
Documents == [Elems -> ElemAttrs]
PlainDocument == [e \in Elems |-> [sel |-> "none", landmark |-> FALSE, content |-> "short"]]

\* element.textContent.trim() is empty
BlankText(doc, present, e) ==
  \A d \in Desc(e) \cap present : doc[d].content = "blank"

\* _shouldPreserveElement: a landmark, or text of substance in the element
shouldPreserveElement(doc, present, e) ==
  \/ doc[e].landmark
  \/ \E d \in Desc(e) \cap present : doc[d].content = "substantial"

\* lines 79-92: the elements the removal selectors of the rule match, in
\* document order; an element that is not preserved goes with what is in it
RemovalOf(rule, doc, present) ==
  LET hit1 == 1 \in present /\ doc[1].sel = rule.name
      keep1 == hit1 /\ shouldPreserveElement(doc, present, 1)
      present1 == IF hit1 /\ ~keep1 THEN {} ELSE present
      hit2 == 2 \in present /\ doc[2].sel = rule.name
      keep2 == hit2 /\ 2 \in present1 /\ shouldPreserveElement(doc, present1, 2)
      present2 == IF hit2 /\ ~keep2 THEN present1 \ {2} ELSE present1
  IN [present |-> present2,
      preserved |-> (IF keep1 THEN {1} ELSE {}) \cup (IF keep2 THEN {2} ELSE {})]

\* lines 94-98, the emptiness actions of the cleaning selectors: a div with
\* no text goes
PruneOf(rule, doc, present) ==
  IF rule.prune THEN {e \in present : ~BlankText(doc, present, e)} ELSE present

\* lines 100-104 and _cleanTextPatterns: a matched text is deleted, and the
\* element that held it goes when nothing is left in it
ScrubOf(rule, doc, present) ==
  LET doc1 == IF rule.patterns
                THEN [e \in Elems |->
                        IF e \in present /\ doc[e].content = "pattern"
                          THEN [doc[e] EXCEPT !.content = "blank"] ELSE doc[e]]
                ELSE doc
      scrubbed == {e \in present : doc[e].content # doc1[e].content}
      gone1 == IF 1 \in scrubbed /\ BlankText(doc1, present, 1) THEN Desc(1) ELSE {}
      present1 == present \ gone1
      gone2 == IF 2 \in scrubbed /\ 2 \in present1 /\ BlankText(doc1, present1, 2)
                 THEN {2} ELSE {}
  IN [doc |-> doc1, present |-> present1 \ gone2]

\* _performContentCleaning: empty and blank p, div and span elements go
performContentCleaning(doc, present) ==
  {e \in present : ~BlankText(doc, present, e)}

CleanerIdle ==
  [rules |-> <<BaseRules, EcommerceRules, SiteSpecificRules>>,
   pc |-> "idle", url |-> [valid |-> TRUE, shop |-> FALSE, site |-> FALSE],
   k |-> 1, doc |-> PlainDocument, present |-> Elems, preserved |-> {},
   applied |-> <<>>, errors |-> {}, success |-> FALSE, html |-> "none"]

\* ContentCleaner.addRule / PreProcessor.addRule: the rule goes to the end
\* of the list the engine walks through
AddRule(rule) ==
  /\ cleaner.pc \in {"idle", "done"}
  /\ Len(cleaner.rules) < MaxRules
  /\ cleaner' = [cleaner EXCEPT !.rules = Append(@, rule)]
  /\ UNCHANGED cleanerFrame

\* cleanContent(html, url) calls PreProcessor.process: the document is parsed
CleanContent(doc, url) ==
  /\ cleaner.pc \in {"idle", "done"}
  /\ cleaner' = [cleaner EXCEPT !.pc = "rule", !.url = url, !.k = 1, !.doc = doc,
                                !.present = Elems, !.preserved = {},
                                !.applied = <<>>, !.errors = {},
                                !.success = FALSE, !.html = "none"]
  /\ UNCHANGED cleanerFrame

NextRule == cleaner.rules[cleaner.k]
AtRule == cleaner.pc = "rule" /\ cleaner.k <= Len(cleaner.rules)

\* line 35 throws: process rethrows (lines 64-67) and cleanContent returns
\* the original html with success false (index.js 93-104)
PredicateThrows ==
  /\ AtRule
  /\ shouldApply(NextRule, cleaner.url) = "throws"
  /\ cleaner' = [cleaner EXCEPT !.pc = "done", !.success = FALSE, !.html = "original"]
  /\ UNCHANGED cleanerFrame

\* line 35: the rule set does not apply to the url
SkipRule ==
  /\ AtRule
  /\ shouldApply(NextRule, cleaner.url) = "no"
  /\ cleaner' = [cleaner EXCEPT !.k = @ + 1]
  /\ UNCHANGED cleanerFrame

\* lines 36-37 and _applyRule: removal selectors with the preservation
\* test, cleaning selectors, text patterns
ApplyRule ==
  /\ AtRule
  /\ shouldApply(NextRule, cleaner.url) = "yes"
  /\ NextRule.apply = "ok"
  /\ LET removal == RemovalOf(NextRule, cleaner.doc, cleaner.present)
         pruned == PruneOf(NextRule, cleaner.doc, removal.present)
         scrub == ScrubOf(NextRule, cleaner.doc, pruned)
     IN cleaner' = [cleaner EXCEPT !.k = @ + 1,
                                   !.applied = Append(@, NextRule),
                                   !.preserved = @ \cup removal.preserved,
                                   !.doc = scrub.doc,
                                   !.present = scrub.present]
  /\ UNCHANGED cleanerFrame

\* lines 36-41: _applyRule throws, the error is noted and the loop goes on
ApplyThrows ==
  /\ AtRule
  /\ shouldApply(NextRule, cleaner.url) = "yes"
  /\ NextRule.apply = "throws"
  /\ cleaner' = [cleaner EXCEPT !.k = @ + 1,
                                !.applied = Append(@, NextRule),
                                !.errors = @ \cup {NextRule.name}]
  /\ UNCHANGED cleanerFrame

\* lines 45-62: the final cleaning, and the result of cleanContent
FinalCleaning ==
  /\ cleaner.pc = "rule"
  /\ cleaner.k > Len(cleaner.rules)
  /\ cleaner' = [cleaner EXCEPT !.pc = "done", !.success = TRUE, !.html = "cleaned",
                                !.present = performContentCleaning(cleaner.doc, cleaner.present)]
  /\ UNCHANGED cleanerFrame

RuleEngine ==
  \/ PredicateThrows
  \/ SkipRule
  \/ ApplyRule
  \/ ApplyThrows
  \/ FinalCleaning

\* ------------------------------------------------- the content scorer
\* Weights and scores are in hundredths: 0.25 is 25, and the overall score
\* is Math.round of the weighted sum.
Dimensions == {"length", "structure", "readability", "uniqueness", "formatting"}

DefaultWeights ==
  [d \in Dimensions |->
     CASE d = "length" -> 20
       [] d = "structure" -> 25
       [] d = "readability" -> 25
       [] d = "uniqueness" -> 15
       [] d = "formatting" -> 15]

\* the values a caller of setWeights gives to the dimensions it names
WeightValues == {0, 100}
NewWeights == UNION {[K -> WeightValues] : K \in SUBSET Dimensions}

\* A content, as far as the five scoring functions look at it: the score
\* each of them gives it, at the ends of its range. _scoreLengthQuality
\* returns 10 to 100, _scoreUniqueness 30 to 100, _scoreFormattingQuality
\* takes 20 off for dense formatting and has no lower limit, the other two
\* are cut to 0..100. A content that is not a string makes the first of
\* them throw.
ScoredContents ==
  [string : {TRUE}, length : {10, 100}, structure : {0, 100},
   readability : {0, 100}, uniqueness : {30, 100}, formatting : {0 - 20, 100}]
EmptyString ==
  [string |-> TRUE, length |-> 10, structure |-> 0, readability |-> 0,
   uniqueness |-> 100, formatting |-> 0]
NotAString ==
  [string |-> FALSE, length |-> 0, structure |-> 0, readability |-> 0,
   uniqueness |-> 0, formatting |-> 0]
ScorerInputs == ScoredContents \cup {EmptyString, NotAString}

RECURSIVE WeightedSum(_, _, _)
WeightedSum(scores, weights, D) ==
  IF D = {} THEN 0
  ELSE LET d == CHOOSE d \in D : TRUE
       IN scores[d] * weights[d] + WeightedSum(scores, weights, D \ {d})

SumOfWeights(weights) == WeightedSum([d \in Dimensions |-> 1], weights, Dimensions)

\* scoreContent: the weighted sum, rounded; 50 with an error on an exception
scoreContent(content, weights) ==
  IF ~content.string
    THEN [overall |-> 50, error |-> TRUE]
    ELSE [overall |-> (WeightedSum(content, weights, Dimensions) + 50) \div 100,
          error |-> FALSE]

NoScore == [overall |-> 0, error |-> FALSE]
ScorerNew == [weights |-> DefaultWeights, scored |-> FALSE, last |-> NoScore]

\* setWeights(newWeights): this.weights = { ...this.weights, ...newWeights }
SetWeights(newWeights) ==
  /\ scorer' = [scorer EXCEPT
        !.weights = [d \in Dimensions |->
                       IF d \in DOMAIN newWeights THEN newWeights[d] ELSE @[d]],
        !.scored = FALSE, !.last = NoScore]
  /\ UNCHANGED scorerFrame

\* scoreContent(content) is called and returns
ScoreContent(content) ==
  /\ scorer' = [scorer EXCEPT !.scored = TRUE,
                              !.last = scoreContent(content, scorer.weights)]
  /\ UNCHANGED scorerFrame

\* ------------------------------------ the content scorer, on a text
\* A text, as far as the five scoring functions look at it. Its paragraphs
\* are the pieces content.split('\n\n') gives; a paragraph is one raw form
\* of a body, the body being what is left of it after
\* chunk.toLowerCase().replace(/\s+/g, ' ').trim(). A body is long when the
\* trimmed paragraph has more than 30 characters (the forms of one body are
\* taken to be on the same side of that limit), and has so many sentences
\* of 6 to 49 characters, each ended by a full stop. What the regular
\* expressions of the other scoring functions find in the text is the set
\* of its traits, and words is content.split(/\s+/).length.
Forms == {"plain", "upper", "spaced"}
Bodies == [id : 1..2, long : BOOLEAN, phrases : {0, 3}]
Paragraphs == [body : Bodies, form : Forms]

StructureTraits == {"headings", "oneH1withH2", "h3withH2", "variedLengths", "lists"}
ReadabilityTraits == {"blank", "fiveSentences", "lengthTenToThirty", "lengthIdeal",
                      "punctuated", "starters70", "starters80", "repetitive"}
FormattingTraits == {"headings", "bold", "italic", "links", "lists", "tables", "dense"}

\* traits that the regular expressions can find together
Consistent(traits) ==
  /\ "oneH1withH2" \in traits => "headings" \in traits
  /\ "h3withH2" \in traits => "headings" \in traits
  /\ "lengthIdeal" \in traits => "lengthTenToThirty" \in traits
  /\ "starters80" \in traits => "starters70" \in traits
  /\ "bold" \in traits => "italic" \in traits
  /\ "blank" \in traits => traits = {"blank"}

WordCounts == {10, 50, 100, 200, 500, 1000, 2000, 5001, 10001}

SeqsUpTo(S, n) == UNION {[1..k -> S] : k \in 0..n}

\* a score that need not be a whole number: num / den, den > 0
Whole(n) == [num |-> n, den |-> 1]
Less(x, y) == x.num * y.den < y.num * x.den
Under(x, n) == x.num < n * x.den

\* _scoreLengthQuality
scoreLengthQuality(content) ==
  LET wordCount == content.words
  IN CASE wordCount < 50 -> 10
       [] wordCount >= 50 /\ wordCount < 100 -> 30
       [] wordCount >= 100 /\ wordCount < 200 -> 50
       [] wordCount >= 200 /\ wordCount < 500 -> 70
       [] wordCount >= 500 /\ wordCount < 1000 -> 85
       [] wordCount >= 1000 /\ wordCount < 2000 -> 95
       [] wordCount >= 2000 /\ wordCount > 5000 -> 80
       [] OTHER -> 100

Paid(traits, trait, points) == IF trait \in traits THEN points ELSE 0

\* the paragraphs the scoring functions count: content.split('\n\n') with
\* the filter on the trimmed length
chunksOf(content) == SelectSeq(content.paragraphs, LAMBDA p : p.body.long)

\* _scoreStructuralQuality
scoreStructuralQuality(content) ==
  LET t == content.traits
      headings == IF "headings" \in t
                    THEN 30 + Paid(t, "oneH1withH2", 20) + Paid(t, "h3withH2", 10)
                    ELSE 0
      paragraphs == IF Len(chunksOf(content)) >= 3
                      THEN 25 + Paid(t, "variedLengths", 15)
                      ELSE 0
      score == headings + paragraphs + Paid(t, "lists", 10)
  IN IF score < 100 THEN score ELSE 100

\* _scoreReadabilityQuality
scoreReadabilityQuality(content) ==
  LET t == content.traits
      sentences == IF "fiveSentences" \in t
                     THEN 30 + Paid(t, "lengthTenToThirty", 20) + Paid(t, "lengthIdeal", 10)
                     ELSE 0
      score == sentences + Paid(t, "punctuated", 20) + Paid(t, "starters70", 15)
                 + Paid(t, "starters80", 10) - Paid(t, "repetitive", 10)
      capped == IF score < 100 THEN score ELSE 100
  IN IF "blank" \in t THEN 0
     ELSE IF capped > 0 THEN capped ELSE 0

\* chunk.toLowerCase().replace(/\s+/g, ' ').trim()
normalized(p) == p.body

\* the short sentences of a paragraph after sentence.toLowerCase().trim():
\* the case is gone, the white space inside the sentence is not
shortSentences(p) ==
  {<<p.body, k, IF p.form = "spaced" THEN "spaced" ELSE "plain">> : k \in 1..p.body.phrases}

RECURSIVE phraseCount(_)
phraseCount(ps) ==
  IF ps = <<>> THEN 0 ELSE Head(ps).body.phrases + phraseCount(Tail(ps))

\* _scoreUniqueness
scoreUniqueness(content) ==
  LET chunks == chunksOf(content)
      n == Len(chunks)
      duplicates == n - Cardinality({normalized(chunks[k]) : k \in 1..n})
      ps == content.paragraphs
      shortDuplicates ==
        phraseCount(ps) - Cardinality(UNION {shortSentences(ps[k]) : k \in 1..Len(ps)})
      penalty == IF shortDuplicates > 2 THEN 20 ELSE 0
      num == (100 - penalty) * n - 50 * duplicates
  IN IF n < 2 THEN Whole(100)
     ELSE IF num > 0 THEN [num |-> num, den |-> n] ELSE Whole(0)

\* _scoreFormattingQuality
scoreFormattingQuality(content) ==
  LET t == content.traits
      score == Paid(t, "headings", 25) + Paid(t, "bold", 15) + Paid(t, "italic", 10)
                 + Paid(t, "links", 20) + Paid(t, "lists", 15) + Paid(t, "tables", 15)
                 + (IF Len(content.paragraphs) > 1 THEN 10 ELSE 0)
                 - Paid(t, "dense", 20)
  IN IF score < 100 THEN score ELSE 100

breakdownOf(content) ==
  [length |-> Whole(scoreLengthQuality(content)),
   structure |-> Whole(scoreStructuralQuality(content)),
   readability |-> Whole(scoreReadabilityQuality(content)),
   uniqueness |-> scoreUniqueness(content),
   formatting |-> Whole(scoreFormattingQuality(content))]

\* _getRecommendations: one recommendation for each score under 50, named
\* here by its dimension, or the one that says the quality looks good
getRecommendations(scores) ==
  LET low == {d \in Dimensions : Under(scores[d], 50)}
  IN IF low = {} THEN {"looksGood"} ELSE low

NoReport == [called |-> FALSE,
             content |-> [paragraphs |-> <<>>, traits |-> {}, words |-> 1],
             breakdown |-> [d \in Dimensions |-> Whole(0)], recommendations |-> {}]

\* scoreContent(content) is called with a text and returns
ScoreText(content) ==
  /\ report' = [called |-> TRUE, content |-> content,
                breakdown |-> breakdownOf(content),
                recommendations |-> getRecommendations(breakdownOf(content))]
  /\ UNCHANGED reportFrame

\* ------------------------------------------- the metrics aggregator
\* CleaningMetrics.metrics of the singleton instance, as far as its
\* counters go: a site absent from the siteStats map has present FALSE, a
\* rule absent from the ruleEffectiveness map has 0 applications.
Hostnames == {"a.example", "b.example"}
NoSite == [present |-> FALSE, cleanings |-> 0, errors |-> 0]
MetricsNew ==
  [totalCleaned |-> 0, totalErrors |-> 0,
   siteStats |-> [h \in Hostnames |-> NoSite],
   ruleEffectiveness |-> [n \in RuleNames |-> 0]]

\* the values of preCleanResult.appliedRules in the model
AppliedRules == {<<>>, <<"base-rules">>, <<"base-rules", "ecommerce-rules">>}

RECURSIVE applyAll(_, _)
applyAll(ruleEffectiveness, appliedRules) ==
  IF appliedRules = <<>> THEN ruleEffectiveness
  ELSE applyAll([ruleEffectiveness EXCEPT ![Head(appliedRules)] = @ + 1],
                Tail(appliedRules))

\* a trackCleaning that puts a new entry into the map at every call
trackCleaningNewEntry(m, hostname, appliedRules) ==
  [m EXCEPT !.totalCleaned = @ + 1,
            !.siteStats[hostname] = [present |-> TRUE, cleanings |-> 1, errors |-> 0],
            !.ruleEffectiveness = applyAll(@, appliedRules)]

\* trackCleaning(hostname, cleaningStats, cleaningTime): it has no await,
\* so it runs from its first statement to its last with nothing between
trackCleaning(m, hostname, appliedRules) ==
  [m EXCEPT !.totalCleaned = @ + 1,
            !.siteStats[hostname] = [@ EXCEPT !.present = TRUE, !.cleanings = @ + 1],
            !.ruleEffectiveness = applyAll(@, appliedRules)]

\* trackError(hostname, error)
trackError(m, hostname) ==
  [m EXCEPT !.totalErrors = @ + 1,
            !.siteStats[hostname] = [@ EXCEPT !.present = TRUE, !.errors = @ + 1]]

\* getSummary(), the counts
getSummary(m) ==
  [totalOperations |-> m.totalCleaned + m.totalErrors,
   successfulCleanings |-> m.totalCleaned,
   errors |-> m.totalErrors]

\* The calls of ContentCleaner.cleanContent. The item pipelines of a slice
\* are started together (Promise.allSettled over the slice), so several
\* calls are in flight at once; a call gives way to the others at its one
\* await, that of preProcessor.process, and what follows the await runs to
\* the return in one piece.
CallIds == 1..MaxCalls
NoCall == [pc |-> "none", hostname |-> "a.example", ok |-> FALSE, appliedRules |-> <<>>]
NoCalls == [c \in CallIds |-> NoCall]

\* cleanContent(html, url) up to await this.preProcessor.process(html, url)
CleanContentCall(c, hostname) ==
  /\ calls[c].pc = "none"
  /\ \A d \in CallIds : d < c => calls[d].pc # "none"
  /\ calls' = [calls EXCEPT ![c] = [NoCall EXCEPT !.pc = "awaiting", !.hostname = hostname]]
  /\ UNCHANGED metrics
  /\ UNCHANGED metricsFrame

\* preProcessor.process has returned: the result is built, the statistics
\* are updated with enableMetrics true, and the call returns success
CleanContentTracked(c, appliedRules) ==
  /\ calls[c].pc = "awaiting"
  /\ metrics' = trackCleaning(metrics, calls[c].hostname, appliedRules)
  /\ calls' = [calls EXCEPT ![c] = [@ EXCEPT !.pc = "returned", !.ok = TRUE,
                                              !.appliedRules = appliedRules]]
  /\ UNCHANGED metricsFrame

\* preProcessor.process has thrown: the catch block updates this.stats of
\* the ContentCleaner and returns the original html
CleanContentFailed(c) ==
  /\ calls[c].pc = "awaiting"
  /\ calls' = [calls EXCEPT ![c] = [@ EXCEPT !.pc = "returned", !.ok = FALSE]]
  /\ UNCHANGED metrics
  /\ UNCHANGED metricsFrame

\* ---------------------------------- the final pass of the post-processor
\* A text is a sequence of characters of four kinds: a character that is
\* not white space, a space, a line break, and the entity &nbsp;.
Chars == {"char", "space", "newline", "nbsp"}
Texts == SeqsUpTo(Chars, MaxText)

\* cleaned.replace(/&nbsp;/g, ' ')
decodeEntities(t) == [k \in 1..Len(t) |-> IF t[k] = "nbsp" THEN "space" ELSE t[k]]

\* the length of the longest prefix of t made of characters of S
RECURSIVE runOf(_, _)
runOf(t, S) == IF t = <<>> \/ Head(t) \notin S THEN 0 ELSE 1 + runOf(Tail(t), S)

\* cleaned.replace(/\n{3,}/g, '\n\n')
RECURSIVE collapseLineBreaks(_)
collapseLineBreaks(t) ==
  IF t = <<>> THEN <<>>
  ELSE IF Head(t) = "newline"
    THEN LET r == runOf(t, {"newline"})
         IN (IF r >= 3 THEN <<"newline", "newline">> ELSE SubSeq(t, 1, r))
              \o collapseLineBreaks(SubSeq(t, r + 1, Len(t)))
    ELSE <<Head(t)>> \o collapseLineBreaks(Tail(t))

\* cleaned.replace(/\s+$/gm, ''): at each position the longest run of white
\* space that ends at the end of the text or just before a line break is
\* taken out, and the search goes on behind it
RECURSIVE trimLineEnds(_)
trimLineEnds(t) ==
  IF t = <<>> THEN <<>>
  ELSE LET r == runOf(t, {"space", "newline"})
           ends == {e \in 1..r : e = Len(t) \/ t[e + 1] = "newline"}
           longest == CHOOSE e \in ends : \A f \in ends : f <= e
       IN IF ends # {}
            THEN trimLineEnds(SubSeq(t, longest + 1, Len(t)))
            ELSE <<Head(t)>> \o trimLineEnds(Tail(t))

\* cleaned.trim()
trim(t) ==
  LET lead == runOf(t, {"space", "newline"})
      rest == SubSeq(t, lead + 1, Len(t))
      back == runOf([k \in 1..Len(rest) |-> rest[Len(rest) + 1 - k]], {"space", "newline"})
  IN SubSeq(rest, 1, Len(rest) - back)

\* _finalCleanup(content, stats) with removeShortParagraphs false, as the
\* constructor sets it
finalCleanup(content) ==
  trim(trimLineEnds(collapseLineBreaks(decodeEntities(content))))

NoPost == [called |-> FALSE, input |-> <<>>, output |-> <<>>]

\* _finalCleanup is called with a text and returns
FinalCleanup(content) ==
  /\ post' = [called |-> TRUE, input |-> content, output |-> finalCleanup(content)]
  /\ UNCHANGED postFrame

\* no slice was listed yet
NoLoop == [slices |-> 0, listed |-> [i \in ItemIds |-> 0]]

\* ------------------------------------------------------------------ Init
Init ==
  /\ processing = FALSE
  /\ import_batches = [b \in BatchIds |-> NoRow]
  /\ imported_bookmarks = [i \in ItemIds |-> NoRow]
  /\ user_content = [i \in ItemIds |-> <<>>]
  /\ runs = [r \in RunIds |-> IdleRun]
  /\ timers = [k \in Users \X BatchIds |-> 0]
  /\ returned = NoReturn
  /\ detector = DetIdle
  /\ cleaner = CleanerIdle
  /\ scorer = ScorerNew
  /\ report = NoReport
  /\ metrics = MetricsNew
  /\ calls = NoCalls
  /\ post = NoPost
  /\ loop = NoLoop

\* =================================================== the import routes
\* POST /import-batch: a new batch owned by the caller
CreateBatch(u, total) ==
  /\ NextBatchId \in BatchIds
  /\ import_batches' = [import_batches EXCEPT ![NextBatchId] =
        [user_id |-> u, total_bookmarks |-> total, imported_count |-> 0,
         fetch_pending |-> total, fetch_completed |-> 0, fetch_failed |-> 0,
         import_status |-> "importing"]]
  /\ UNCHANGED <<processing, imported_bookmarks, user_content, runs, timers, returned>>
  /\ UNCHANGED libVars

\* POST /import with n bookmarks and batchId b: n pending rows owned by the
\* caller, then the batch row b (whoever owns it) is updated
Import(u, b, n, limit) ==
  /\ BatchExists(b)
  /\ NextItemId + n - 1 <= limit
  /\ imported_bookmarks' =
       [i \in ItemIds |->
          IF i >= NextItemId /\ i < NextItemId + n
            THEN [user_id |-> u, import_batch_id |-> b, fetch_status |-> "pending",
                  fetch_error |-> "null", content_id |-> 0]
            ELSE imported_bookmarks[i]]
  /\ import_batches' = [import_batches EXCEPT ![b] =
        [@ EXCEPT !.imported_count = n, !.import_status = "fetching_content"]]
  /\ UNCHANGED <<processing, user_content, runs, timers, returned>>
  /\ UNCHANGED libVars

\* POST /import-batch/:id/complete: only the owner's batch row matches; the
\* kick-off of the orchestrator is a timer
Complete(u, b) ==
  /\ BatchExists(b)
  /\ Batch(b).user_id = u
  /\ TimerCount < MaxTimers
  /\ import_batches' = [import_batches EXCEPT ![b] =
        [@ EXCEPT !.import_status = "fetching_content",
                  !.imported_count = Cardinality(BatchItems(b))]]
  /\ timers' = [timers EXCEPT ![<<u, b>>] = @ + 1]
  /\ UNCHANGED <<processing, imported_bookmarks, user_content, runs, returned>>
  /\ UNCHANGED libVars

\* a reset that forgets the filter on fetch_status = 'failed'
RetrySetAnyStatus(u, b) ==
  {i \in BatchItems(b) : Item(i).user_id = u /\ Item(i).fetch_status # "pending"}

\* the rows retry-failed resets: the caller's failed rows of batch b
RetrySet(u, b) ==
  {i \in BatchItemsIn(b, "failed") : Item(i).user_id = u}

\* POST /import-batch/:id/retry-failed, in the case that it resets a row
\* (with no failed row it changes nothing and starts nothing)
RetryFailed(u, b) ==
  /\ RetrySet(u, b) # {}
  /\ TimerCount < MaxTimers
  /\ imported_bookmarks' =
       [i \in ItemIds |->
          IF i \in RetrySet(u, b)
            THEN [imported_bookmarks[i] EXCEPT !.fetch_status = "pending",
                                               !.fetch_error = "null"]
            ELSE imported_bookmarks[i]]
  /\ timers' = [timers EXCEPT ![<<u, b>>] = @ + 1]
  /\ UNCHANGED <<processing, import_batches, user_content, runs, returned>>
  /\ UNCHANGED libVars

\* DELETE /imported/:id: the caller's own row
DeleteImported(u, i) ==
  /\ ItemExists(i)
  /\ Item(i).user_id = u
  /\ imported_bookmarks' = [imported_bookmarks EXCEPT ![i] = Deleted]
  /\ UNCHANGED <<processing, import_batches, user_content, runs, timers, returned>>
  /\ UNCHANGED libVars

\* GET /import-batch/:id/progress, answered for the owner of batch b
Progress(b) ==
  [status |-> Batch(b).import_status,
   total |-> Batch(b).total_bookmarks,
   imported |-> Batch(b).imported_count,
   fetchPending |-> Cardinality(BatchItemsIn(b, "pending")),
   fetchInProgress |-> Cardinality(BatchItemsIn(b, "fetching")),
   fetchCompleted |-> Cardinality(BatchItemsIn(b, "completed")),
   fetchFailed |-> Cardinality(BatchItemsIn(b, "failed")),
   isComplete |-> Batch(b).import_status = "completed"]

\* ========================================= the orchestrator (one process)
\* a guard that never finds the flag set
busyNever == FALSE

\* the guard of processPendingBookmarks: if (this.processing)
busy == processing

FreeRun == CHOOSE r \in RunIds : runs[r].pc = "idle" /\ \A q \in RunIds : runs[q].pc = "idle" => r <= q

\* A kick-off timer of complete or retry-failed fires while the flag is set:
\* the call returns 'Already processing'
AlreadyProcessing(u, b) ==
  /\ timers[<<u, b>>] > 0
  /\ busy
  /\ timers' = [timers EXCEPT ![<<u, b>>] = @ - 1]
  /\ UNCHANGED <<processing, import_batches, imported_bookmarks, user_content, runs>>
  /\ returned' = Return(b, FALSE, "Already processing")
  /\ UNCHANGED libVars

\* ... while it is clear: the call sets the flag and sends the listing query
StartRun(u, b) ==
  /\ timers[<<u, b>>] > 0
  /\ ~busy
  /\ \E r \in RunIds : runs[r].pc = "idle"
  /\ timers' = [timers EXCEPT ![<<u, b>>] = @ - 1]
  /\ processing' = TRUE
  /\ runs' = [runs EXCEPT ![FreeRun] =
        [pc |-> "list", userId |-> u, batchId |-> b, pipe |-> <<>>]]
  /\ UNCHANGED <<import_batches, imported_bookmarks, user_content, returned>>
  /\ UNCHANGED libVars

\* the rows the listing query matches
PendingOf(u, b) == {i \in BatchItemsIn(b, "pending") : Item(i).user_id = u}

Min(a, c) == IF a <= c THEN a ELSE c

\* a listing query limited to one row
SlicesOfOne(u, b) ==
  {S \in SUBSET PendingOf(u, b) :
     Cardinality(S) = Min(1, Cardinality(PendingOf(u, b)))}

\* a listing query with no limit
SlicesNoLimit(u, b) == {PendingOf(u, b)}

\* .limit(this.batchSize): any batchSize of them, or all when there are fewer
Slices(u, b) ==
  {S \in SUBSET PendingOf(u, b) :
     Cardinality(S) = Min(batchSize, Cardinality(PendingOf(u, b)))}

\* a catch block that returns without clearing the flag
ListErrorKeepsFlag(r) ==
  /\ runs[r].pc = "list"
  /\ runs' = [runs EXCEPT ![r] = IdleRun]
  /\ returned' = Return(runs[r].batchId, FALSE, "error")
  /\ UNCHANGED <<processing, import_batches, imported_bookmarks, user_content, timers>>
  /\ UNCHANGED libVars

\* the listing query returns an error: throw, catch, clear the flag, return
ListError(r) ==
  /\ runs[r].pc = "list"
  /\ processing' = FALSE
  /\ runs' = [runs EXCEPT ![r] = IdleRun]
  /\ UNCHANGED <<import_batches, imported_bookmarks, user_content, timers>>
  /\ returned' = Return(runs[r].batchId, FALSE, "error")
  /\ UNCHANGED libVars

\* the listing query answers: either no row (lines 55-59) or a slice whose
\* pipelines are all started by bookmarks.map
Listed(r, S) ==
  /\ S \in Slices(runs[r].userId, runs[r].batchId)
  /\ runs' = [runs EXCEPT ![r] =
        IF S = {} THEN [@ EXCEPT !.pc = "nopending"]
        ELSE [@ EXCEPT !.pc = "slice", !.pipe = [i \in S |-> NewPipe]]]
  /\ UNCHANGED <<processing, import_batches, imported_bookmarks, user_content, timers, returned>>

ListPending(r) ==
  /\ runs[r].pc = "list"
  /\ \E S \in Slices(runs[r].userId, runs[r].batchId) : Listed(r, S)
  /\ UNCHANGED libVars

\* the same step, with the history of the loop kept
ListPendingLogged(r) ==
  /\ runs[r].pc = "list"
  /\ \E S \in Slices(runs[r].userId, runs[r].batchId) :
       /\ Listed(r, S)
       /\ loop' = IF S = {} THEN loop
                  ELSE [slices |-> loop.slices + 1,
                        listed |-> [i \in ItemIds |->
                                     loop.listed[i] + (IF i \in S THEN 1 ELSE 0)]]
  /\ UNCHANGED <<detector, cleaner, scorer, report, metrics, calls, post>>

\* updateBatchStatus(batchId, status)
updateBatchStatus(b, status) ==
  IF BatchExists(b)
    THEN [import_batches EXCEPT ![b] = [@ EXCEPT !.import_status = status]]
    ELSE import_batches

\* lines 55-59: 'No pending bookmarks to process': the batch is marked
\* completed and the call returns; this path does not touch the flag
NoPending(r) ==
  /\ runs[r].pc = "nopending"
  /\ import_batches' = updateBatchStatus(runs[r].batchId, "completed")
  /\ runs' = [runs EXCEPT ![r] = IdleRun]
  /\ UNCHANGED <<processing, imported_bookmarks, user_content, timers>>
  /\ returned' = Return(runs[r].batchId, TRUE, "No bookmarks to process")
  /\ UNCHANGED libVars

\* an update of imported_bookmarks by id (no row when it was deleted)
UpdateItem(i, status, err, cid) ==
  IF ItemExists(i)
    THEN [imported_bookmarks EXCEPT ![i] =
            [@ EXCEPT !.fetch_status = status, !.fetch_error = err, !.content_id = cid]]
    ELSE imported_bookmarks

Slice(r) == IF runs[r].pc = "slice" THEN DOMAIN runs[r].pipe ELSE {}

\* fetchBookmarkContent, lines 109-113: the row is marked fetching
MarkFetching(r, i) ==
  /\ i \in Slice(r)
  /\ runs[r].pipe[i].pc = "mark"
  /\ imported_bookmarks' =
       IF ItemExists(i)
         THEN [imported_bookmarks EXCEPT ![i] = [@ EXCEPT !.fetch_status = "fetching"]]
         ELSE imported_bookmarks
  /\ runs' = [runs EXCEPT ![r].pipe[i].pc = "run"]
  /\ UNCHANGED <<processing, import_batches, user_content, timers, returned>>
  /\ UNCHANGED libVars

\* a pipeline that inserts a content record before it knows whether the
\* item can be processed
ProcessItemInsertsFirst(r, i, inp) ==
  /\ i \in Slice(r)
  /\ runs[r].pipe[i].pc = "run"
  /\ LET out == fetchBookmarkContent(inp)
     IN /\ user_content' = [user_content EXCEPT ![i] =
               Append(@, [user_id |-> runs[r].userId,
                          content_type |-> out.content_type,
                          content_text |-> out.content_text])]
        /\ IF out.success
             THEN /\ runs' = [runs EXCEPT ![r].pipe[i] =
                       [pc |-> "update", success |-> TRUE,
                        content_id |-> Len(user_content[i]) + 1]]
                  /\ UNCHANGED imported_bookmarks
             ELSE /\ imported_bookmarks' = UpdateItem(i, "failed", out.error, Item(i).content_id)
                  /\ runs' = [runs EXCEPT ![r].pipe[i] =
                       [pc |-> "done", success |-> FALSE, content_id |-> 0]]
  /\ UNCHANGED <<processing, import_batches, timers, returned>>
  /\ UNCHANGED libVars

\* fetchBookmarkContent, lines 115-222 and 237-250 (processPDFBookmark for a
\* PDF url): the collaborators answer inp; on success the content record is
\* inserted, on any exception the row is marked failed with the message
ProcessItem(r, i, inp) ==
  /\ i \in Slice(r)
  /\ runs[r].pipe[i].pc = "run"
  /\ LET out == fetchBookmarkContent(inp)
     IN IF out.success
          THEN /\ user_content' = [user_content EXCEPT ![i] =
                    Append(@, [user_id |-> runs[r].userId,
                               content_type |-> out.content_type,
                               content_text |-> out.content_text])]
               /\ runs' = [runs EXCEPT ![r].pipe[i] =
                    [pc |-> "update", success |-> TRUE,
                     content_id |-> Len(user_content[i]) + 1]]
               /\ UNCHANGED imported_bookmarks
          ELSE /\ imported_bookmarks' = UpdateItem(i, "failed", out.error, Item(i).content_id)
               /\ runs' = [runs EXCEPT ![r].pipe[i] =
                    [pc |-> "done", success |-> FALSE, content_id |-> 0]]
               /\ UNCHANGED user_content
  /\ UNCHANGED <<processing, import_batches, timers, returned>>
  /\ UNCHANGED libVars

\* lines 224-235 (296-309 for a PDF): the row is marked completed and
\* refers to the content record
CompleteItem(r, i) ==
  /\ i \in Slice(r)
  /\ runs[r].pipe[i].pc = "update"
  /\ imported_bookmarks' = UpdateItem(i, "completed", Item(i).fetch_error, runs[r].pipe[i].content_id)
  /\ runs' = [runs EXCEPT ![r].pipe[i].pc = "done"]
  /\ UNCHANGED <<processing, import_batches, user_content, timers, returned>>
  /\ UNCHANGED libVars

\* a wait that ends with the first pipeline that fails
SettledOrFailed(r) ==
  \/ \A i \in Slice(r) : runs[r].pipe[i].pc = "done"
  \/ \E i \in Slice(r) : runs[r].pipe[i].pc = "done" /\ ~runs[r].pipe[i].success

\* Promise.allSettled: every pipeline of the slice has returned
Settled(r) == \A i \in Slice(r) : runs[r].pipe[i].pc = "done"

succeededOf(r) == Cardinality({i \in Slice(r) : runs[r].pipe[i].success})
failedOf(r) == Cardinality({i \in Slice(r) : ~runs[r].pipe[i].success})

\* updateBatchStats(batchId, succeeded, failed): the counters are written
statsRow(row, succeeded, failed) ==
  [row EXCEPT !.fetch_completed = succeeded, !.fetch_failed = failed,
              !.fetch_pending = 0]

\* lines 64-75: the slice has settled and the counters of the batch are
\* written (stored) or the update returns an error, which is only logged
UpdateBatchStats(r, stored) ==
  /\ runs[r].pc = "slice"
  /\ Settled(r)
  /\ import_batches' =
       IF stored /\ BatchExists(runs[r].batchId)
         THEN [import_batches EXCEPT ![runs[r].batchId] =
                 statsRow(@, succeededOf(r), failedOf(r))]
         ELSE import_batches
  /\ runs' = [runs EXCEPT ![r] = [@ EXCEPT !.pc = "count", !.pipe = <<>>]]
  /\ UNCHANGED <<processing, imported_bookmarks, user_content, timers, returned>>
  /\ UNCHANGED libVars

\* lines 77-90: the pending rows of the batch are counted; with some left
\* the next slice is scheduled and the call returns nothing, with none the
\* run goes on to its end
CountPending(r) ==
  /\ runs[r].pc = "count"
  /\ IF Cardinality(BatchItemsIn(runs[r].batchId, "pending")) > 0
       THEN /\ runs' = [runs EXCEPT ![r].pc = "delay"]
            /\ returned' = Return(runs[r].batchId, FALSE, "undefined")
       ELSE /\ runs' = [runs EXCEPT ![r].pc = "finish"]
            /\ UNCHANGED returned
  /\ UNCHANGED <<processing, import_batches, imported_bookmarks, user_content, timers>>
  /\ UNCHANGED libVars

\* lines 91-94: the batch is marked completed and the flag is cleared
FinishRun(r) ==
  /\ runs[r].pc = "finish"
  /\ import_batches' = updateBatchStatus(runs[r].batchId, "completed")
  /\ processing' = FALSE
  /\ runs' = [runs EXCEPT ![r] = IdleRun]
  /\ UNCHANGED <<imported_bookmarks, user_content, timers>>
  /\ returned' = Return(runs[r].batchId, TRUE, "All bookmarks processed")
  /\ UNCHANGED libVars

\* lines 86-89: the 2 s timer fires: the flag is cleared and the call that
\* follows in the same callback sets it again and sends the listing query
NextSlice(r) ==
  /\ runs[r].pc = "delay"
  /\ processing' = TRUE
  /\ runs' = [runs EXCEPT ![r].pc = "list"]
  /\ UNCHANGED <<import_batches, imported_bookmarks, user_content, timers, returned>>
  /\ UNCHANGED libVars

\* ------------------------------------------------------ specifications
Input(pdf, http, type, art) ==
  [isPDF |-> pdf, pdfOk |-> TRUE, httpOk |-> http, contentType |-> type,
   cleanOk |-> TRUE, article |-> art, postOk |-> TRUE, insertOk |-> TRUE]

\* the answers Spec draws from: a page that is fetched and extracted, and
\* one that is not fetched
SpecInputs == {Input(FALSE, TRUE, "article", TRUE),
               Input(FALSE, FALSE, "article", TRUE)}

\* a kick-off timer fires
KickOffs ==
  \/ \E u \in Users, b \in BatchIds : AlreadyProcessing(u, b)
  \/ \E u \in Users, b \in BatchIds : StartRun(u, b)

\* the steps of a run that has started, but the listing
RunSteps(inputs) ==
  \/ \E r \in RunIds : ListError(r)
  \/ \E r \in RunIds : NoPending(r)
  \/ \E r \in RunIds : \E i \in Slice(r) : MarkFetching(r, i)
  \/ \E r \in RunIds : \E i \in Slice(r) : \E inp \in inputs : ProcessItem(r, i, inp)
  \/ \E r \in RunIds : \E i \in Slice(r) : CompleteItem(r, i)
  \/ \E r \in RunIds, stored \in BOOLEAN : UpdateBatchStats(r, stored)
  \/ \E r \in RunIds : CountPending(r)
  \/ \E r \in RunIds : FinishRun(r)
  \/ \E r \in RunIds : NextSlice(r)

Orchestrator(inputs) ==
  \/ \E r \in RunIds : ListPending(r)
  \/ KickOffs
  \/ RunSteps(inputs)

\* the steps of a run that has started, with the history of the loop kept,
\* for behaviours of MaxSlices slices or fewer
RunStepsLogged(inputs) ==
  \/ \E r \in RunIds : loop.slices < MaxSlices /\ ListPendingLogged(r)
  \/ RunSteps(inputs)

OrchestratorLogged(inputs) ==
  \/ KickOffs
  \/ RunStepsLogged(inputs)

Routes(U) ==
  \/ \E u \in U, total \in 1..MaxTotal : CreateBatch(u, total)
  \/ \E u \in U, b \in BatchIds, n \in 1..MaxItems : Import(u, b, n, MaxItems)
  \/ \E u \in U, b \in BatchIds : Complete(u, b)
  \/ \E u \in U, b \in BatchIds : RetryFailed(u, b)

\* Spec: one client, two batches, the orchestrator
SpecUsers == {"u1"}

Next == Routes(SpecUsers) \/ Orchestrator(SpecInputs)

Spec == Init /\ [][Next]_vars

\* SpecBig: one client and one batch of BigItems bookmarks, declared and
\* imported in one piece, so that the batch needs more than one slice
NextBig ==
  \/ CreateBatch("u1", BigItems)
  \/ Import("u1", 1, BigItems, BigItems)
  \/ Complete("u1", 1)
  \/ Orchestrator(SpecInputs)

SpecBig == Init /\ [][NextBig]_vars

\* SpecItem: one client, one batch of one bookmark, and every combination
\* of answers of the collaborators of its pipeline
NextItem ==
  \/ CreateBatch("u1", 1)
  \/ Import("u1", 1, 1, 1)
  \/ Complete("u1", 1)
  \/ RetryFailed("u1", 1)
  \/ Orchestrator(AllInputs)

SpecItem == Init /\ [][NextItem]_vars

\* SpecRetry: SpecItem with the history of the loop
NextRetry ==
  \/ CreateBatch("u1", 1)
  \/ Import("u1", 1, 1, 1)
  \/ Complete("u1", 1)
  \/ RetryFailed("u1", 1)
  \/ OrchestratorLogged(AllInputs)

SpecRetry == Init /\ [][NextRetry]_vars

\* SpecLoop: SpecBig with the history of the loop. A run that has started
\* goes on: the datastore and the pages answer (the page fetch has a
\* timeout of 10 s) and the 2 s timer of the next slice fires.
NextLoop ==
  \/ CreateBatch("u1", BigItems)
  \/ Import("u1", 1, BigItems, BigItems)
  \/ Complete("u1", 1)
  \/ OrchestratorLogged(SpecInputs)

SpecLoop == Init /\ [][NextLoop]_vars /\ WF_vars(RunStepsLogged(SpecInputs))

\* SpecTwo: two clients, each of whom may name any batch id and any
\* bookmark id in a call; one batch of one declared bookmark, created by
\* either of them
NextTwo ==
  \/ \E u \in Users : InsertedBatches = {} /\ CreateBatch(u, 1)
  \/ \E u \in Users, b \in BatchIds : Import(u, b, 1, MaxItems)
  \/ \E u \in Users, b \in BatchIds : Complete(u, b)
  \/ \E u \in Users, b \in BatchIds : RetryFailed(u, b)
  \/ \E u \in Users : \E i \in InsertedItems : DeleteImported(u, i)
  \/ Orchestrator(SpecInputs)

SpecTwo == Init /\ [][NextTwo]_vars

\* SpecDetect: calls of detectType, one after another, with every url,
\* with and without html and API key, and every answer of the remote
\* classification
NextDetect == Detector

SpecDetect == Init /\ [][NextDetect]_vars

\* SpecRules: rule sets are added to the engine and a plain document is
\* cleaned, for every url
NextRules ==
  \/ \E rule \in CustomRules : AddRule(rule)
  \/ \E url \in CleanUrls : CleanContent(PlainDocument, url)
  \/ RuleEngine

SpecRules == Init /\ [][NextRules]_vars

\* SpecClean: the engine, as it is built or with one more rule set, cleans
\* one document: every document, every url
NextClean ==
  \/ cleaner.pc = "idle" /\ \E rule \in CustomRules : AddRule(rule)
  \/ cleaner.pc = "idle" /\ \E doc \in Documents, url \in CleanUrls : CleanContent(doc, url)
  \/ RuleEngine

SpecClean == Init /\ [][NextClean]_vars

\* SpecScore: the weights of the scorer are set and contents are scored
NextScore ==
  \/ \E newWeights \in NewWeights : SetWeights(newWeights)
  \/ \E content \in ScorerInputs : ScoreContent(content)

SpecScore == Init /\ [][NextScore]_vars

\* ContentScorer.scoreContent on one text: every sequence of paragraphs
\* with no markup; an article of three paragraphs with every set of traits
\* one scoring function looks at, and with every word count; a line of
\* 30 characters or fewer with every set of formatting traits
Article ==
  [k \in 1..3 |-> [body |-> [id |-> 1 + (k % 2), long |-> TRUE,
                             phrases |-> IF k = 3 THEN 3 ELSE 0],
                   form |-> "plain"]]

Line == <<[body |-> [id |-> 1, long |-> FALSE, phrases |-> 0], form |-> "plain"]>>

TraitSets ==
  {t \in SUBSET StructureTraits \cup SUBSET ReadabilityTraits \cup SUBSET FormattingTraits :
     Consistent(t)}

TextInputs ==
  {[paragraphs |-> ps, traits |-> {}, words |-> IF ps = <<>> THEN 1 ELSE 10] :
     ps \in SeqsUpTo(Paragraphs, MaxParagraphs)}
    \cup [paragraphs : {Article}, traits : TraitSets, words : {200}]
    \cup [paragraphs : {Article}, traits : {{}}, words : WordCounts]
    \cup [paragraphs : {Line}, traits : {t \in SUBSET FormattingTraits : Consistent(t)},
          words : {10}]

NextText == ~report.called /\ \E content \in TextInputs : ScoreText(content)

SpecText == Init /\ [][NextText]_vars

\* the calls of cleanContent of one slice, interleaved at their awaits
NextMetrics ==
  \/ \E c \in CallIds, hostname \in Hostnames : CleanContentCall(c, hostname)
  \/ \E c \in CallIds, appliedRules \in AppliedRules : CleanContentTracked(c, appliedRules)
  \/ \E c \in CallIds : CleanContentFailed(c)

SpecMetrics == Init /\ [][NextMetrics]_vars

\* PostProcessor._finalCleanup on one text
NextPost == ~post.called /\ \E content \in Texts : FinalCleanup(content)

SpecPost == Init /\ [][NextPost]_vars

\* ================================================================ claims
\* C1: at most one run of processPendingBookmarks is active at any time, and
\* a kick-off that arrives while a run is active (working, or waiting for
\* its next slice) returns 'Already processing' and leaves the tables, the
\* flag and the active run as they are.
C1_SingleRun ==
  /\ [](Cardinality(ActiveRuns) <= 1)
  /\ [][\A u \in Users, b \in BatchIds :
          (timers'[<<u, b>>] < timers[<<u, b>>] /\ ActiveRuns # {})
            => /\ returned' = Return(b, FALSE, "Already processing")
               /\ UNCHANGED <<processing, import_batches, imported_bookmarks,
                              user_content, runs>>]_vars

\* a call for one batch was turned away while the run of the other batch
\* waits for its next slice
C1_Witness ==
  /\ returned.message = "Already processing"
  /\ \E r \in ActiveRuns : runs[r].pc = "delay" /\ runs[r].batchId # returned.batchId

StatusSteps ==
  {<<"pending", "fetching">>, <<"fetching", "completed">>,
   <<"fetching", "failed">>, <<"failed", "pending">>}

\* C2: a row of imported_bookmarks is inserted as pending and its
\* fetch_status changes only pending -> fetching -> completed or failed,
\* and failed -> pending; the last one only in a step of retry-failed.
C2_Lifecycle ==
  [][\A i \in ItemIds :
       LET old == imported_bookmarks[i]
           new == imported_bookmarks'[i]
       IN /\ (old = NoRow /\ IsRow(new)) => new.fetch_status = "pending"
          /\ (IsRow(old) /\ IsRow(new) /\ old.fetch_status # new.fetch_status)
               => /\ <<old.fetch_status, new.fetch_status>> \in StatusSteps
                  /\ old.fetch_status = "failed"
                       => \E u \in Users, b \in BatchIds : RetryFailed(u, b)]_vars

\* one bookmark went through to completed, and another one of a batch whose
\* stored counters record a failure is pending again, its kick-off scheduled
C2_Witness ==
  \E i, j \in ItemIds :
    /\ ItemExists(i) /\ Item(i).fetch_status = "completed" /\ Item(i).content_id > 0
    /\ ItemExists(j) /\ Item(j).fetch_status = "pending"
    /\ Batch(Item(j).import_batch_id).fetch_failed > 0
    /\ timers[<<Item(j).user_id, Item(j).import_batch_id>>] > 0

\* no run is active and no kick-off is scheduled: nothing happens any more
\* unless a client calls a route
Quiescent == ActiveRuns = {} /\ TimerCount = 0

\* C3: a kick-off for a batch leads to every pending bookmark of the batch
\* being completed or failed and to the batch being completed, also when it
\* arrives while a run is active. Stated for a kick-off that arrived while
\* the flag was set and at the point where nothing is active or scheduled
\* any more: by then the batch it was for is done.
C3_KickOffServed ==
  \A b \in BatchIds :
    (Quiescent /\ returned = Return(b, FALSE, "Already processing"))
      => /\ BatchItemsIn(b, "pending") = {}
         /\ Batch(b).import_status = "completed"

StoredSum(b) ==
  Batch(b).fetch_pending + Cardinality(BatchItemsIn(b, "fetching"))
    + Batch(b).fetch_completed + Batch(b).fetch_failed

\* C4: once updateBatchStats has written the counters of a slice, the
\* counters stored on the batch row and the rows that are being fetched add
\* up to total_bookmarks.
C4_CountersAddUp ==
  \A r \in RunIds :
    (runs[r].pc = "count" /\ BatchExists(runs[r].batchId))
      => StoredSum(runs[r].batchId) = Batch(runs[r].batchId).total_bookmarks

\* C5: in every state the progress query can be answered in, the four
\* counts it reports add up to the total it reports.
C5_ProgressAddsUp ==
  \A b \in BatchIds :
    BatchExists(b) =>
      Progress(b).fetchPending + Progress(b).fetchInProgress
        + Progress(b).fetchCompleted + Progress(b).fetchFailed = Progress(b).total

\* C6: a batch whose import_status is completed has no bookmark that is
\* pending or fetching.
C6_CompletedMeansDone ==
  \A b \in BatchIds :
    (BatchExists(b) /\ Batch(b).import_status = "completed")
      => BatchItemsIn(b, "pending") \cup BatchItemsIn(b, "fetching") = {}

\* C7: a step of retry-failed on batch b sets exactly the failed rows of b
\* to pending, leaves every other row as it is, and lowers the fetch_failed
\* of b by the number of rows it reset.
C7_RetryFrame ==
  [][\A u \in Users, b \in BatchIds :
       RetryFailed(u, b) =>
         /\ \A i \in ItemIds :
              IF i \in BatchItemsIn(b, "failed")
                THEN imported_bookmarks'[i].fetch_status = "pending"
                ELSE imported_bookmarks'[i] = imported_bookmarks[i]
         /\ import_batches'[b].fetch_failed =
              import_batches[b].fetch_failed - Cardinality(BatchItemsIn(b, "failed"))]_vars

PipeStep(r, i) ==
  \/ MarkFetching(r, i)
  \/ \E inp \in SpecInputs : ProcessItem(r, i, inp)
  \/ CompleteItem(r, i)

\* C8: a run leaves its slice only for the count of the pending rows, never
\* by ending or failing, and only when the pipeline of every bookmark of the
\* slice has returned; a pipeline ends by marking its bookmark completed or
\* failed; and a pipeline that has not returned can take its next step
\* whatever the other pipelines of the slice did.
C8_SliceSettles ==
  /\ [](\A r \in RunIds : \A i \in Slice(r) :
          runs[r].pipe[i].pc # "done" => ENABLED PipeStep(r, i))
  /\ [][\A r \in RunIds :
          runs[r].pc = "slice" =>
            /\ runs'[r].pc \in {"slice", "count"}
            /\ runs'[r].pc = "count" =>
                 \A i \in Slice(r) : runs[r].pipe[i].pc = "done"
            /\ \A i \in Slice(r) :
                 (runs[r].pipe[i].pc # "done" /\ runs'[r].pc = "slice"
                    /\ runs'[r].pipe[i].pc = "done")
                   => imported_bookmarks'[i].fetch_status =
                        IF runs'[r].pipe[i].success THEN "completed" ELSE "failed"]_vars

\* a slice of two bookmarks, one failed and one completed, has settled and
\* the run is at the count of the pending rows
C8_Witness ==
  \E r \in RunIds :
    /\ runs[r].pc = "count"
    /\ BatchItemsIn(runs[r].batchId, "failed") # {}
    /\ BatchItemsIn(runs[r].batchId, "completed") # {}
    /\ Batch(runs[r].batchId).fetch_failed = 1
    /\ Batch(runs[r].batchId).fetch_completed = 1

OnArticlePath(inp) == ~inp.isPDF /\ inp.httpOk /\ inp.contentType = "article"

FromExtraction(text) ==
  \/ Len(text) >= 1 /\ text[1] = "readability"
  \/ Len(text) >= 2 /\ text[1] = "text" /\ text[2] = "readability"

NoContentInputs == {inp \in AllInputs : OnArticlePath(inp) /\ ~inp.article}
OtherPathInputs == {inp \in AllInputs : ~OnArticlePath(inp)}

\* C10: on the article path an extraction that returns no content ends the
\* pipeline with the bookmark failed, an error text stored and no content
\* record inserted; no content record of type article holds the page as it
\* was fetched; and on every other path the extraction is not consulted and
\* its answer changes nothing.
C10_NoExtractionIsFatal ==
  /\ [](\A i \in ItemIds : \A k \in 1..Len(user_content[i]) :
          user_content[i][k].content_type = "article"
            => FromExtraction(user_content[i][k].content_text))
  /\ [](\A inp \in OtherPathInputs :
          /\ "extraction" \notin fetchBookmarkContent(inp).consulted
          /\ fetchBookmarkContent([inp EXCEPT !.article = ~@])
               = fetchBookmarkContent(inp))
  /\ [][\A r \in RunIds : \A i \in Slice(r) :
          (runs[r].pipe[i].pc = "run" /\ runs'[r].pipe[i].pc # "run") =>
            \A inp \in NoContentInputs :
              ProcessItem(r, i, inp) =>
                /\ imported_bookmarks'[i].fetch_status = "failed"
                /\ imported_bookmarks'[i].fetch_error # "null"
                /\ imported_bookmarks'[i].content_id = 0
                /\ user_content' = user_content]_vars

\* the bookmark of the batch failed on the extraction, and nothing was
\* stored for it
C10_Witness ==
  \E i \in ItemIds :
    /\ ItemExists(i)
    /\ Item(i).fetch_status = "failed"
    /\ Item(i).fetch_error = "Could not extract content from page"
    /\ user_content[i] = <<>>

\* answers of an article page whose cleaning or post-processing failed
DegradedInputs ==
  {inp \in AllInputs : OnArticlePath(inp) /\ (~inp.cleanOk \/ ~inp.postOk)}

\* what the extraction was handed and what is persisted for these answers
ExtractionInput(inp) == IF inp.cleanOk THEN Cleaned(RawHtml) ELSE RawHtml
Persisted(inp) ==
  IF inp.postOk THEN Normalized(Extracted(ExtractionInput(inp)))
                ELSE Extracted(ExtractionInput(inp))

\* C11: a failed cleaning or a failed post-processing does not fail the
\* bookmark: the outcome of the pipeline is the one of the same answers with
\* both stages succeeding; after a failed cleaning the extraction works on
\* the page as fetched, after a failed post-processing the extracted
\* content is stored as it is; and the step of the pipeline stores exactly
\* one content record and goes on to mark the bookmark completed whenever
\* the extraction returned content.
C11_StageFailureDegrades ==
  /\ [](\A inp \in DegradedInputs :
          /\ fetchBookmarkContent(inp).success
               = fetchBookmarkContent([inp EXCEPT !.cleanOk = TRUE, !.postOk = TRUE]).success
          /\ fetchBookmarkContent(inp).success
               => fetchBookmarkContent(inp).content_text = Persisted(inp)
          /\ (inp.article /\ inp.insertOk) => fetchBookmarkContent(inp).success)
  /\ [][\A r \in RunIds : \A i \in Slice(r) :
          (runs[r].pipe[i].pc = "run" /\ runs'[r].pipe[i].pc # "run") =>
            \A inp \in DegradedInputs :
              (ProcessItem(r, i, inp) /\ inp.article /\ inp.insertOk) =>
                /\ runs'[r].pipe[i].pc = "update"
                /\ imported_bookmarks'[i] = imported_bookmarks[i]
                /\ user_content'[i] = Append(user_content[i],
                     [user_id |-> runs[r].userId, content_type |-> "article",
                      content_text |-> Persisted(inp)])]_vars

\* the bookmark is completed and its content record holds what the
\* extraction made of the page as fetched, not post-processed
C11_Witness ==
  \E i \in ItemIds :
    /\ ItemExists(i)
    /\ Item(i).fetch_status = "completed"
    /\ Item(i).content_id = Len(user_content[i])
    /\ Len(user_content[i]) > 0
    /\ user_content[i][Len(user_content[i])].content_text = Extracted(RawHtml)

\* the rows of the two tables that belong to someone other than u
ForeignBatches(u) == {b \in BatchIds : BatchExists(b) /\ Batch(b).user_id # u}
ForeignItems(u) == {i \in ItemIds : ItemExists(i) /\ Item(i).user_id # u}

\* the progress answer computed from the rows of the batch's owner alone
ProgressOwn(b) ==
  LET own(s) == {i \in BatchItemsIn(b, s) : Item(i).user_id = Batch(b).user_id}
  IN [Progress(b) EXCEPT !.fetchPending = Cardinality(own("pending")),
                         !.fetchInProgress = Cardinality(own("fetching")),
                         !.fetchCompleted = Cardinality(own("completed")),
                         !.fetchFailed = Cardinality(own("failed"))]

\* C12: a call of import, complete, retry-failed or delete by client u,
\* whatever batch id or bookmark id it names, leaves every batch and every
\* bookmark of another client as it is, and the progress answer for a batch
\* depends on the rows of its owner only.
C12_ClientsIsolated ==
  /\ [](\A b \in BatchIds : BatchExists(b) => Progress(b) = ProgressOwn(b))
  /\ [][\A u \in Users :
          (\/ \E b \in BatchIds : Import(u, b, 1, MaxItems)
           \/ \E b \in BatchIds : Complete(u, b)
           \/ \E b \in BatchIds : RetryFailed(u, b)
           \/ \E i \in InsertedItems : DeleteImported(u, i))
            => /\ \A b \in ForeignBatches(u) : import_batches'[b] = import_batches[b]
               /\ \A i \in ForeignItems(u) : imported_bookmarks'[i] = imported_bookmarks[i]]_vars

PdfInputs == {inp \in AllInputs : inp.isPDF}

\* C13: for a url detected as a PDF the pipeline consults the PDF
\* collaborator and nothing else (no page fetch, no classifier, no rule
\* engine, no extraction), whatever those would have answered, and the step
\* of the pipeline either stores one content record labelled pdf or stores
\* none; no record with another label is ever stored for it.
C13_PdfBypasses ==
  /\ [](\A inp \in PdfInputs :
          /\ fetchBookmarkContent(inp).consulted = {"pdf"}
          /\ fetchBookmarkContent(inp).success
               => fetchBookmarkContent(inp).content_type = "pdf"
          /\ fetchBookmarkContent([inp EXCEPT !.httpOk = ~@]) = fetchBookmarkContent(inp)
          /\ fetchBookmarkContent([inp EXCEPT !.cleanOk = ~@]) = fetchBookmarkContent(inp)
          /\ fetchBookmarkContent([inp EXCEPT !.article = ~@]) = fetchBookmarkContent(inp)
          /\ fetchBookmarkContent([inp EXCEPT !.postOk = ~@]) = fetchBookmarkContent(inp)
          /\ \A t \in ContentTypes :
               fetchBookmarkContent([inp EXCEPT !.contentType = t]) = fetchBookmarkContent(inp))
  /\ [][\A r \in RunIds : \A i \in Slice(r) :
          (runs[r].pipe[i].pc = "run" /\ runs'[r].pipe[i].pc # "run") =>
            \A inp \in PdfInputs :
              ProcessItem(r, i, inp) =>
                \/ user_content' = user_content
                \/ /\ Len(user_content'[i]) = Len(user_content[i]) + 1
                   /\ user_content'[i][Len(user_content'[i])].content_type = "pdf"]_vars

\* the bookmark is completed and refers to a content record labelled pdf
C13_Witness ==
  \E i \in ItemIds :
    /\ ItemExists(i)
    /\ Item(i).fetch_status = "completed"
    /\ Item(i).content_id > 0
    /\ user_content[i][Item(i).content_id].content_type = "pdf"
    /\ user_content[i][Item(i).content_id].content_text = PdfText

\* C14: when the url matches one of the pattern families, detectType
\* returns the label of the first family that matches, in the order social,
\* video, e-commerce, publishing, and no request is sent to the remote
\* classification, with an html argument and without one.
C14_UrlMatchReturns ==
  detectFromURL(detector.url) # "unknown" =>
    /\ detector.remoteCalls = 0
    /\ detector.pc # "response"
    /\ detector.pc = "done" => detector.result = detectFromURL(detector.url)

\* C15: a call of detectType always ends with a label of the vocabulary,
\* and all the calls in which the remote classification was of no use (no
\* API key, status not a success, request thrown, body malformed, token
\* outside the vocabulary) ended with one and the same label.
C15_SafeDefault ==
  /\ detector.pc = "done" => detector.result \in ContentTypes
  /\ Cardinality(detector.defaults) <= 1

\* C16: the rule sets the engine has applied in a run were applied in
\* ascending order of their priority numbers, for the list the engine is
\* built with and for a list that addRule has extended.
C16_PriorityOrder ==
  \A i, j \in 1..Len(cleaner.applied) :
    i < j => cleaner.applied[i].priority <= cleaner.applied[j].priority

\* the rule sets of the list that apply to the url and whose application
\* does not throw
Applicable ==
  {k \in 1..Len(cleaner.rules) :
     /\ shouldApply(cleaner.rules[k], cleaner.url) = "yes"
     /\ cleaner.rules[k].apply = "ok"}

\* C17: a cleaning run ends with cleaned html, whatever rule set failed in
\* its applicability test or in its application, and every other rule set
\* that applies to the url has been applied by then.
C17_FailingRuleSkipped ==
  cleaner.pc = "done" =>
    /\ cleaner.success
    /\ cleaner.html = "cleaned"
    /\ \A k \in Applicable :
         \E n \in 1..Len(cleaner.applied) : cleaner.applied[n] = cleaner.rules[k]

\* C18: an element that matched a removal selector and was kept by the
\* preservation predicate is in the cleaned document when the run ends.
C18_PreservedStays ==
  (cleaner.pc = "done" /\ cleaner.success) => cleaner.preserved \subseteq cleaner.present

\* C19: the five weights of the scorer add up to 1.0 (100 hundredths), when
\* it is built and after every call of setWeights.
C19_WeightsSumToOne == SumOfWeights(scorer.weights) = 100

\* C20: a call of scoreContent returns an overall score from 0 to 100, for
\* every content, the empty string and a content that makes the scoring
\* throw included; when the scoring threw, the score is 50 and the error is
\* flagged.
C20_ScoreInRange ==
  scorer.scored =>
    /\ scorer.last.overall \in 0..100
    /\ scorer.last.error => scorer.last.overall = 50

\* a text whose paragraphs are all different from each other
DistinctParagraphs(content) ==
  \A j, k \in 1..Len(content.paragraphs) :
    j # k => content.paragraphs[j] # content.paragraphs[k]

\* the text with a verbatim copy of its paragraph k added behind place at
WithCopy(content, k, at) ==
  LET ps == content.paragraphs
  IN [content EXCEPT !.paragraphs =
        SubSeq(ps, 1, at) \o <<ps[k]>> \o SubSeq(ps, at + 1, Len(ps))]

\* C21: for every text made of distinct paragraphs, the text with a verbatim
\* copy of one of its paragraphs added, at any place, has a uniqueness score
\* strictly lower than the score of the text without the copy.
C21_CopyLowersUniqueness ==
  (report.called /\ DistinctParagraphs(report.content)) =>
    \A k \in 1..Len(report.content.paragraphs), at \in 0..Len(report.content.paragraphs) :
      Less(scoreUniqueness(WithCopy(report.content, k, at)), report.breakdown.uniqueness)

\* two paragraphs that are equal after case and white space normalisation
NearDuplicates(p, q) == normalized(p) = normalized(q)

\* the text is a valid article, of one or more long paragraphs with bodies
\* all different, into which the boilerplate paragraphs j and k were put
Injected(content, j, k) ==
  LET ps == content.paragraphs
      article == (1..Len(ps)) \ {j, k}
  IN /\ j < k /\ NearDuplicates(ps[j], ps[k]) /\ ps[j].body.long
     /\ article # {}
     /\ \A a \in article : ps[a].body.long /\ ~NearDuplicates(ps[a], ps[j])
     /\ \A a, b \in article : a # b => ~NearDuplicates(ps[a], ps[b])

\* C22: when two near-duplicate boilerplate paragraphs (equal after case and
\* white space normalisation) are injected into valid article content, the
\* uniqueness score is below 70 and the recommendations returned include
\* the one about repeated content.
C22_BoilerplateIsReported ==
  \A j, k \in 1..Len(report.content.paragraphs) :
    (report.called /\ Injected(report.content, j, k)) =>
      /\ Under(report.breakdown.uniqueness, 70)
      /\ "uniqueness" \in report.recommendations

\* the calls of cleanContent that have returned, with success or without
Reports(h) ==
  {c \in CallIds : calls[c].pc = "returned" /\ calls[c].ok /\ calls[c].hostname = h}
Failures(h) ==
  {c \in CallIds : calls[c].pc = "returned" /\ ~calls[c].ok /\ calls[c].hostname = h}
Naming(n) ==
  {c \in CallIds : /\ calls[c].pc = "returned" /\ calls[c].ok
                   /\ \E k \in 1..Len(calls[c].appliedRules) : calls[c].appliedRules[k] = n}

\* C23: when the item pipelines of one slice run concurrently and each
\* reports to the metrics aggregator, no update is lost: in every
\* interleaving, after k reports for a hostname its operation count is k,
\* the application count of each rule is the number of reports that name
\* it, and the global count is the number of all reports.
C23_NoLostUpdate ==
  /\ \A h \in Hostnames : metrics.siteStats[h].cleanings = Cardinality(Reports(h))
  /\ \A n \in RuleNames : metrics.ruleEffectiveness[n] = Cardinality(Naming(n))
  /\ metrics.totalCleaned = Cardinality(UNION {Reports(h) : h \in Hostnames})

\* two calls for one hostname have reported while a call started before
\* them, for the same hostname, is still at its await
C23_Witness ==
  /\ calls[1].pc = "awaiting"
  /\ \A c \in {2, 3} : /\ calls[c].pc = "returned" /\ calls[c].ok
                       /\ calls[c].hostname = calls[1].hostname
                       /\ calls[c].appliedRules # <<>>
  /\ metrics.siteStats[calls[1].hostname].cleanings = 2

\* C24: every call of cleanContent is recorded in the metrics aggregator, a
\* successful one in the operation count of its hostname and a failed one
\* in the error count of its hostname, so that the summary's total of
\* operations is the number of calls and its error count the number of
\* failed calls.
C24_EveryCallRecorded ==
  /\ \A h \in Hostnames :
       /\ metrics.siteStats[h].cleanings = Cardinality(Reports(h))
       /\ metrics.siteStats[h].errors = Cardinality(Failures(h))
  /\ getSummary(metrics).totalOperations =
       Cardinality({c \in CallIds : calls[c].pc = "returned"})
  /\ getSummary(metrics).errors = Cardinality(UNION {Failures(h) : h \in Hostnames})

\* C25: each of the five scores of the breakdown (length, structure,
\* readability, uniqueness, formatting) is between 0 and 100 inclusive, for
\* every text.
C25_SubScoresInRange ==
  report.called =>
    \A d \in Dimensions :
      /\ ~Under(report.breakdown[d], 0)
      /\ ~Less(Whole(100), report.breakdown[d])

\* the text has two paragraphs with a blank line between them: a character,
\* r line breaks and a character, with r = 2, or with r >= 2
BlankLineAt(t, k, r) ==
  /\ k >= 1 /\ k + r + 1 <= Len(t)
  /\ t[k] = "char" /\ t[k + r + 1] = "char"
  /\ \A j \in (k + 1)..(k + r) : t[j] = "newline"
HasBlankLine(t) == \E k \in 1..Len(t) : BlankLineAt(t, k, 2)
HadBlankLine(t) == \E k \in 1..Len(t), r \in 2..Len(t) : BlankLineAt(t, k, r)

LineBreaks(t) == Cardinality({k \in 1..Len(t) : t[k] = "newline"})

\* C26: the final pass turns every run of three or more line breaks into
\* exactly two and keeps a run of exactly two, so that two paragraphs with a
\* blank line between them before the final pass have a blank line between
\* them in the text returned; trimming the trailing white space removes
\* only spaces at the end of a line, so that a text that begins and ends
\* with a character keeps the line breaks the collapsing has left.
C26_BlankLineKept ==
  post.called =>
    /\ HadBlankLine(post.input) => HasBlankLine(post.output)
    /\ (post.input # <<>> /\ Head(post.input) = "char"
          /\ post.input[Len(post.input)] = "char") =>
         LineBreaks(post.output) = LineBreaks(collapseLineBreaks(decodeEntities(post.input)))

\* C27: every run of processPendingBookmarks that sets the busy flag clears
\* it on every path by which it ends (all items processed, no pending item
\* found, error), unless it has scheduled the next slice, whose call takes
\* the flag over: the flag is never set with no run active and none
\* scheduled.
C27_FlagFollowsRun == processing => ActiveRuns # {}

\* the rows in status fetching, over all batches
Fetching == {i \in ItemIds : ItemExists(i) /\ Item(i).fetch_status = "fetching"}

C29_OneRecordPerItem ==
  \A i \in ItemIds :
    /\ Len(user_content[i]) <= 1
    /\ ItemExists(i) =>
         /\ Item(i).fetch_status = "completed" =>
              Len(user_content[i]) = 1 /\ Item(i).content_id = 1
         /\ Item(i).fetch_status = "failed" => user_content[i] = <<>>

\* an item that was listed in two slices or more, having failed and been
\* reset by retry-failed, is completed with its one record
C29_Witness ==
  \E i \in ItemIds :
    /\ ItemExists(i) /\ Item(i).fetch_status = "completed"
    /\ Len(user_content[i]) = 1
    /\ loop.listed[i] >= 2

CeilDiv(n, d) == (n + d - 1) \div d

\* the rows of some slice in progress
InSlice == UNION {Slice(r) : r \in RunIds}

\* C30: with no retry-failed call and no item added while it runs, the
\* processing loop of a batch of N pending items ends after at most
\* ceil(N/5) slices: every slice moves each item it has listed out of
\* pending, no item is listed in two slices, and the loop schedules no
\* further slice once no item is pending.
LoopBounds ==
  /\ loop.slices <= CeilDiv(Cardinality(InsertedItems), batchSize)
  /\ \A i \in ItemIds :
       /\ loop.listed[i] <= 1
       /\ (loop.listed[i] = 1 /\ i \notin InSlice) => Item(i).fetch_status # "pending"
  /\ \A r \in RunIds :
       runs[r].pc = "delay" =>
         Cardinality(BatchItemsIn(runs[r].batchId, "pending")) > 0

====
